---- MODULE Spec2Model ----
(***************************************************************************)
(* DocuCraft: the image-collage layout engine (mergeImages) of the image   *)
(* utilities, modelled as a state machine.                                 *)
(*                                                                         *)
(* One behaviour of Spec is one call of mergeImages(imageFiles, options):  *)
(* the argument check, the concurrent decodes joined by Promise.all, the   *)
(* computation of the canvas size, the acquisition of the 2D context, the  *)
(* background fill, the draw loop and the encoding of the canvas.          *)
(*                                                                         *)
(* JavaScript numbers are modelled as exact rationals [num, den] in lowest *)
(* terms with den > 0.  Every quantity of the layout arithmetic is a       *)
(* quotient of small integers, so the exact value differs from the IEEE    *)
(* double the program computes by at most a few units in the last place.   *)
(***************************************************************************)
EXTENDS Integers, Sequences, FiniteSets, TLC

(* ------------------------------ bounds --------------------------------- *)

\* the longest list of image files a call is given
MaxImages == 5

\* natural sizes (width, height) of the images the files decode to
Dims == { [width |-> 100, height |-> 200],
          [width |-> 300, height |-> 100] }

Layouts == {"horizontal", "vertical", "grid"}

\* values of options.spacing and options.maxWidth a caller configures
SpacingValues == {0, 4}
MaxWidthValues == {7, 250, 1000}
BackgroundValues == {"#000000"}

(* ----------------------- numbers (exact rationals) --------------------- *)

Abs(n) == IF n < 0 THEN -n ELSE n

RECURSIVE GCD(_, _)
GCD(a, b) == IF b = 0 THEN a ELSE GCD(b, a % b)

\* the number n/d (d > 0) in lowest terms
Num(n, d) == LET g == GCD(Abs(n), d) IN [num |-> n \div g, den |-> d \div g]

R(n) == [num |-> n, den |-> 1]

RAdd(a, b) == Num(a.num * b.den + b.num * a.den, a.den * b.den)
RSub(a, b) == Num(a.num * b.den - b.num * a.den, a.den * b.den)
RMul(a, b) == Num(a.num * b.num, a.den * b.den)
\* a / b for b > 0
RDiv(a, b) == Num(a.num * b.den, a.den * b.num)

RLe(a, b) == a.num * b.den <= b.num * a.den
RLt(a, b) == a.num * b.den < b.num * a.den

\* Math.min
RMin(a, b) == IF RLe(a, b) THEN a ELSE b

\* Math.floor
RFloor(a) == a.num \div a.den

\* Math.ceil(Math.sqrt(n)) for an integer n >= 0
CeilSqrt(n) == CHOOSE c \in 0..n : c * c >= n /\ \A d \in 0..(c - 1) : d * d < n

\* Math.ceil(a / b) for integers a >= 0, b > 0
CeilDiv(a, b) == (a + b - 1) \div b

(* --------------------------- the arguments ----------------------------- *)

\* an options object: each of layout, spacing, maxWidth and backgroundColor
\* present or absent
OptionsSet ==
  { l @@ s @@ m @@ b :
      l \in {<<>>} \cup { [layout |-> v] : v \in Layouts },
      s \in {<<>>} \cup { [spacing |-> v] : v \in SpacingValues },
      m \in {<<>>} \cup { [maxWidth |-> v] : v \in MaxWidthValues },
      b \in {<<>>} \cup { [backgroundColor |-> v] : v \in BackgroundValues } }

\* options.key || dflt for a numeric option: absent and 0 are falsy
OrDefault(opts, key, dflt) ==
  IF key \in DOMAIN opts /\ opts[key] # 0 THEN opts[key] ELSE dflt

\* options.layout || 'vertical'
LayoutOrDefault(opts) ==
  IF "layout" \in DOMAIN opts THEN opts["layout"] ELSE "vertical"

\* options.backgroundColor || '#ffffff': absent and '' are falsy
ColorOrDefault(opts) ==
  IF "backgroundColor" \in DOMAIN opts /\ opts["backgroundColor"] # ""
    THEN opts["backgroundColor"] ELSE "#ffffff"

ImageLists == UNION { [1..n -> Dims] : n \in 0..MaxImages }

(* ------------------------- sums and maxima ----------------------------- *)

RECURSIVE SumWidth(_)
SumWidth(imgs) ==
  IF imgs = <<>> THEN 0 ELSE imgs[1].width + SumWidth(Tail(imgs))

RECURSIVE SumHeight(_)
SumHeight(imgs) ==
  IF imgs = <<>> THEN 0 ELSE imgs[1].height + SumHeight(Tail(imgs))

MaxWidthOf(imgs) ==
  CHOOSE w \in { imgs[i].width : i \in DOMAIN imgs } :
    \A i \in DOMAIN imgs : imgs[i].width <= w

MaxHeightOf(imgs) ==
  CHOOSE h \in { imgs[i].height : i \in DOMAIN imgs } :
    \A i \in DOMAIN imgs : imgs[i].height <= h

(* ----------------- canvas dimensions (mergeImages) --------------------- *)

\* Math.floor in place of Math.ceil
gridCols_mut(n) == CHOOSE c \in 0..n : c * c <= n /\ (c + 1) * (c + 1) > n

\* const cols = Math.ceil(Math.sqrt(images.length))
gridCols(n) == CeilSqrt(n)

\* const rows = Math.ceil(images.length / cols)
gridRows(n) == CeilDiv(n, gridCols(n))

\* the scale without Math.min(1, ...): small inputs are enlarged to maxWidth
sizeScale_mut(layout, imgs, maxWidth) ==
  IF layout = "horizontal" THEN Num(maxWidth, SumWidth(imgs))
  ELSE IF layout = "vertical" THEN Num(maxWidth, MaxWidthOf(imgs))
  ELSE Num(maxWidth, MaxWidthOf(imgs) * gridCols(Len(imgs)))

\* the const scale of the branch that sizes the canvas
sizeScale(layout, imgs, maxWidth) ==
  IF layout = "horizontal" THEN RMin(R(1), Num(maxWidth, SumWidth(imgs)))
  ELSE IF layout = "vertical" THEN RMin(R(1), Num(maxWidth, MaxWidthOf(imgs)))
  ELSE RMin(R(1), Num(maxWidth, MaxWidthOf(imgs) * gridCols(Len(imgs))))

\* canvasWidth with one spacing per image instead of one per gap
calcCanvasWidth_mut(layout, imgs, spacing, maxWidth) ==
  LET n == Len(imgs)
      scale == sizeScale(layout, imgs, maxWidth)
  IN  IF layout = "horizontal"
        THEN RMul(R(SumWidth(imgs) + spacing * n), scale)
      ELSE IF layout = "vertical"
        THEN RMul(R(MaxWidthOf(imgs)), scale)
      ELSE RMul(R(MaxWidthOf(imgs) * gridCols(n) + spacing * gridCols(n)),
                scale)

\* canvasWidth, before Math.floor
calcCanvasWidth(layout, imgs, spacing, maxWidth) ==
  LET n == Len(imgs)
      scale == sizeScale(layout, imgs, maxWidth)
  IN  IF layout = "horizontal"
        THEN RMul(R(SumWidth(imgs) + spacing * (n - 1)), scale)
      ELSE IF layout = "vertical"
        THEN RMul(R(MaxWidthOf(imgs)), scale)
      ELSE RMul(R(MaxWidthOf(imgs) * gridCols(n) + spacing * (gridCols(n) - 1)),
                scale)

\* canvasHeight with one spacing per image instead of one per gap
calcCanvasHeight_mut(layout, imgs, spacing, maxWidth) ==
  LET n == Len(imgs)
      scale == sizeScale(layout, imgs, maxWidth)
  IN  IF layout = "horizontal"
        THEN RMul(R(MaxHeightOf(imgs)), scale)
      ELSE IF layout = "vertical"
        THEN RMul(R(SumHeight(imgs) + spacing * n), scale)
      ELSE RMul(R(MaxHeightOf(imgs) * gridRows(n) + spacing * gridRows(n)),
                scale)

\* canvasHeight, before Math.floor
calcCanvasHeight(layout, imgs, spacing, maxWidth) ==
  LET n == Len(imgs)
      scale == sizeScale(layout, imgs, maxWidth)
  IN  IF layout = "horizontal"
        THEN RMul(R(MaxHeightOf(imgs)), scale)
      ELSE IF layout = "vertical"
        THEN RMul(R(SumHeight(imgs) + spacing * (n - 1)), scale)
      ELSE RMul(R(MaxHeightOf(imgs) * gridRows(n) + spacing * (gridRows(n) - 1)),
                scale)

(* --------------------- the draw pass (mergeImages) --------------------- *)

\* the draw scale of the grid taken over the cells only, without the gaps
drawScale_mut(layout, imgs, cv, spacing) ==
  IF layout = "horizontal" THEN Num(cv.height, MaxHeightOf(imgs))
  ELSE IF layout = "vertical" THEN Num(cv.width, MaxWidthOf(imgs))
  ELSE Num(cv.width, MaxWidthOf(imgs) * gridCols(Len(imgs)))

\* the const scale of the branch that draws the images
drawScale(layout, imgs, cv, spacing) ==
  IF layout = "horizontal" THEN Num(cv.height, MaxHeightOf(imgs))
  ELSE IF layout = "vertical" THEN Num(cv.width, MaxWidthOf(imgs))
  ELSE Num(cv.width,
           MaxWidthOf(imgs) * gridCols(Len(imgs))
             + spacing * (gridCols(Len(imgs)) - 1))

\* const scaledWidth = img.width * scale
scaledWidthOf(img, scale) == RMul(R(img.width), scale)

\* the height scaled from the width
scaledHeightOf_mut(img, scale) == RMul(R(img.width), scale)

\* const scaledHeight = img.height * scale
scaledHeightOf(img, scale) == RMul(R(img.height), scale)

\* the grid image centred in its cell instead of anchored at its top-left
drawX_mut(layout, imgs, i, cv, spacing, scale, curX) ==
  IF layout = "horizontal" THEN curX
  ELSE IF layout = "vertical"
    THEN RDiv(RSub(R(cv.width), scaledWidthOf(imgs[i], scale)), R(2))
  ELSE RAdd(RMul(R((i - 1) % gridCols(Len(imgs))),
                 RAdd(RMul(R(MaxWidthOf(imgs)), scale), R(spacing))),
            RDiv(RSub(RMul(R(MaxWidthOf(imgs)), scale),
                      scaledWidthOf(imgs[i], scale)), R(2)))

\* the x argument of ctx.drawImage for image i (1-based), given the running x
drawX(layout, imgs, i, cv, spacing, scale, curX) ==
  IF layout = "horizontal" THEN curX
  ELSE IF layout = "vertical"
    THEN RDiv(RSub(R(cv.width), scaledWidthOf(imgs[i], scale)), R(2))
  ELSE RMul(R((i - 1) % gridCols(Len(imgs))),
            RAdd(RMul(R(MaxWidthOf(imgs)), scale), R(spacing)))

\* the horizontal images aligned at the bottom edge instead of centred
drawY_mut(layout, imgs, i, cv, spacing, scale, curY) ==
  IF layout = "horizontal"
    THEN RSub(R(cv.height), scaledHeightOf(imgs[i], scale))
  ELSE IF layout = "vertical" THEN curY
  ELSE RMul(R((i - 1) \div gridCols(Len(imgs))),
            RAdd(RMul(R(MaxHeightOf(imgs)), scale), R(spacing)))

\* the y argument of ctx.drawImage for image i (1-based), given the running y
drawY(layout, imgs, i, cv, spacing, scale, curY) ==
  IF layout = "horizontal"
    THEN RDiv(RSub(R(cv.height), scaledHeightOf(imgs[i], scale)), R(2))
  ELSE IF layout = "vertical" THEN curY
  ELSE RMul(R((i - 1) \div gridCols(Len(imgs))),
            RAdd(RMul(R(MaxHeightOf(imgs)), scale), R(spacing)))

\* x advanced by the spacing only
nextX_mut(layout, img, spacing, scale, curX, px) ==
  IF layout = "horizontal" THEN RAdd(curX, R(spacing))
  ELSE IF layout = "vertical" THEN curX
  ELSE px

\* the value of x after image i was drawn at px
nextX(layout, img, spacing, scale, curX, px) ==
  IF layout = "horizontal"
    THEN RAdd(curX, RAdd(scaledWidthOf(img, scale), R(spacing)))
  ELSE IF layout = "vertical" THEN curX
  ELSE px

\* the value of y after image i was drawn at py
nextY(layout, img, spacing, scale, curY, py) ==
  IF layout = "horizontal" THEN curY
  ELSE IF layout = "vertical"
    THEN RAdd(curY, RAdd(scaledHeightOf(img, scale), R(spacing)))
  ELSE py

(* ------------------------------- state --------------------------------- *)

VARIABLES
  imageFiles,   \* the files of the call: the natural size each decodes to
  options,      \* the options object of the call
  pc,           \* position of the call
  decode,       \* per file: "none", "pending", "loaded" or "failed"
  images,       \* the array Promise.all builds from the decoded images
  cfg,          \* the locals layout, spacing, backgroundColor, maxWidth
  sizing,       \* the locals of the sizing branch
  canvas,       \* canvas.width and canvas.height, or NoCanvas
  filled,       \* the background was filled
  draw,         \* the locals of the draw branch: scale, cols, x, y, i
  placements,   \* the arguments of the ctx.drawImage calls so far
  result,       \* the settled promise of the call, or NoResult
  run,          \* 1 for the first call, 2 for the repeated call
  prev          \* canvas and placements of the first call, for the second

mergeVars == <<imageFiles, options, pc, decode, images, cfg, sizing, canvas,
              filled, draw, placements, result, run, prev>>

\* one call of mergePDFs or imagesToPDF (pdfUtils)
VARIABLES
  pdfFn,        \* the function called: "mergePDFs" or "imagesToPDF", or "none"
  pdfInput,     \* its argument: the list of files
  pdfPc,        \* position of the call
  pdfIdx,       \* the file the for loop is at (1-based)
  pdfDoc,       \* the pages of the PDFDocument under construction
  pdfResult     \* the ProcessingResult returned, or NoPdfResult

pdfVars == <<pdfFn, pdfInput, pdfPc, pdfIdx, pdfDoc, pdfResult>>

\* the App component (App.tsx)
VARIABLES
  files,                 \* the file list
  activeTab,             \* the tool selected
  processing,            \* ProcessingState: isProcessing, progress, result, error
  selectedImageForCrop,  \* the file shown in the crop dialog, or NoFile
  showCropDialog,        \* the crop dialog is open
  cropArea,              \* width and height of the crop area
  selecting,             \* handleFileSelect calls awaiting their thumbnails
  inflight,              \* operations awaiting the promise of their utility
  called                 \* the call of a utility the latest step made, if any

appVars == <<files, activeTab, processing, selectedImageForCrop, showCropDialog,
             cropArea, selecting, inflight, called>>

vars == <<mergeVars, pdfVars, appVars>>

NoCanvas == [width |-> -1, height |-> -1]
NoImage == [width |-> 0, height |-> 0]
NoResult == [success |-> FALSE, error |-> "", returned |-> FALSE,
             rejected |-> FALSE,
             data |-> FALSE, url |-> FALSE, filename |-> FALSE]
NoCfg == [layout |-> "", spacing |-> 0, backgroundColor |-> "", maxWidth |-> 0]
NoSizing == [scale |-> R(0), cols |-> 0, rows |-> 0,
             canvasWidth |-> R(0), canvasHeight |-> R(0)]
NoDraw == [scale |-> R(0), cols |-> 0, x |-> R(0), y |-> R(0), i |-> 0]
NoPrev == [canvas |-> NoCanvas, placements |-> <<>>]

\* a failure result that carries the canvas contents drawn so far
Failure_mut(msg) == [success |-> FALSE, error |-> msg, returned |-> TRUE,
                     rejected |-> FALSE,
                     data |-> TRUE, url |-> TRUE, filename |-> FALSE]

\* return { success: false, error }
Failure(msg) == [success |-> FALSE, error |-> msg, returned |-> TRUE,
                 rejected |-> FALSE,
                 data |-> FALSE, url |-> FALSE, filename |-> FALSE]

\* return { success: true, data: blob, url, filename }
Success == [success |-> TRUE, error |-> "", returned |-> TRUE,
            rejected |-> FALSE,
            data |-> TRUE, url |-> TRUE, filename |-> TRUE]

\* the promise of the call rejects with the error thrown
Rejected(msg) == [success |-> FALSE, error |-> msg, returned |-> FALSE,
                  rejected |-> TRUE,
                  data |-> FALSE, url |-> FALSE, filename |-> FALSE]

\* the error escapes: no try/catch around the body
caught_mut(msg) == Rejected(msg)

\* catch (error): return { success: false, error: error.message }
caught(msg) == Failure(msg)

\* the resolved image is pushed in the order the decodes complete
collect_mut(imgs, dec, i, img) ==
  [imgs EXCEPT ![Cardinality({ j \in DOMAIN dec : dec[j] = "loaded" }) + 1] = img]

\* Promise.all stores the value file i resolved to at position i
collect(imgs, dec, i, img) == [imgs EXCEPT ![i] = img]

MergeInit ==
  /\ imageFiles \in ImageLists
  /\ options \in OptionsSet
  /\ pc = "start"
  /\ decode = [i \in DOMAIN imageFiles |-> "none"]
  /\ images = [i \in DOMAIN imageFiles |-> NoImage]
  /\ cfg = NoCfg
  /\ sizing = NoSizing
  /\ canvas = NoCanvas
  /\ filled = FALSE
  /\ draw = NoDraw
  /\ placements = <<>>
  /\ result = NoResult
  /\ run = 1
  /\ prev = NoPrev

\* no call of mergeImages is made
MergeIdle ==
  /\ imageFiles = <<>>
  /\ options = <<>>
  /\ pc = "idle"
  /\ decode = <<>>
  /\ images = <<>>
  /\ cfg = NoCfg
  /\ sizing = NoSizing
  /\ canvas = NoCanvas
  /\ filled = FALSE
  /\ draw = NoDraw
  /\ placements = <<>>
  /\ result = NoResult
  /\ run = 1
  /\ prev = NoPrev

NoPdfResult == [success |-> FALSE, error |-> "", returned |-> FALSE,
                data |-> FALSE, pages |-> <<>>]

\* no call of a pdfUtils function is made
PdfIdle ==
  /\ pdfFn = "none"
  /\ pdfInput = <<>>
  /\ pdfPc = "idle"
  /\ pdfIdx = 0
  /\ pdfDoc = <<>>
  /\ pdfResult = NoPdfResult

NoFile == [id |-> 0, type |-> "", size |-> 0]
NoAppResult == "null"
\* the result object a utility resolved with
AppResult == "result"
NoCall == [util |-> "none", args |-> <<>>]

\* { isProcessing: false, progress: 0, result: null, error: null }
IdleProcessing == [isProcessing |-> FALSE, progress |-> 0,
                   result |-> NoAppResult, error |-> "null"]

\* the state of the App component after its first render
AppInit ==
  /\ files = <<>>
  /\ activeTab = "image-to-pdf"
  /\ processing = IdleProcessing
  /\ selectedImageForCrop = NoFile
  /\ showCropDialog = FALSE
  /\ cropArea = [width |-> 0, height |-> 0]
  /\ selecting = <<>>
  /\ inflight = {}
  /\ called = NoCall

Init == MergeInit /\ PdfIdle /\ AppInit

(* ------------------------------ actions -------------------------------- *)

\* !imageFiles || imageFiles.length === 0
noImages(list) == Len(list) = 0

\* the check of a single image left out
singleImage_mut(list) == FALSE

\* imageFiles.length === 1
singleImage(list) == Len(list) = 1

\* the argument check fails: return before anything is decoded
RejectArguments ==
  /\ pc = "start"
  /\ noImages(imageFiles) \/ singleImage(imageFiles)
  /\ result' = IF noImages(imageFiles)
                 THEN Failure("No images selected")
                 ELSE Failure("Please select at least 2 images to merge")
  /\ pc' = "done"
  /\ UNCHANGED <<pdfVars, appVars>>
  /\ UNCHANGED <<imageFiles, options, decode, images, cfg, sizing, canvas,
                 filled, draw, placements, run, prev>>

\* the defaults are applied and every file's decode is started
StartLoading ==
  /\ pc = "start"
  /\ ~noImages(imageFiles)
  /\ ~singleImage(imageFiles)
  /\ cfg' = [layout |-> LayoutOrDefault(options),
             spacing |-> OrDefault(options, "spacing", 10),
             backgroundColor |-> ColorOrDefault(options),
             maxWidth |-> OrDefault(options, "maxWidth", 1200)]
  /\ decode' = [i \in DOMAIN imageFiles |-> "pending"]
  /\ pc' = "loading"
  /\ UNCHANGED <<pdfVars, appVars>>
  /\ UNCHANGED <<imageFiles, options, images, sizing, canvas, filled, draw,
                 placements, result, run, prev>>

\* img.onload of file i
DecodeResolve(i) ==
  /\ pc = "loading"
  /\ decode[i] = "pending"
  /\ decode' = [decode EXCEPT ![i] = "loaded"]
  /\ images' = collect(images, decode, i, imageFiles[i])
  /\ UNCHANGED <<pdfVars, appVars>>
  /\ UNCHANGED <<imageFiles, options, pc, cfg, sizing, canvas, filled, draw,
                 placements, result, run, prev>>

\* img.onerror of file i: Promise.all rejects and the catch block returns
DecodeReject(i) ==
  /\ pc = "loading"
  /\ decode[i] = "pending"
  /\ decode' = [decode EXCEPT ![i] = "failed"]
  /\ result' = caught("Failed to load image")
  /\ pc' = "done"
  /\ UNCHANGED <<pdfVars, appVars>>
  /\ UNCHANGED <<imageFiles, options, images, cfg, sizing, canvas, filled,
                 draw, placements, run, prev>>

\* the canvas is created as soon as one decode resolved
CreateCanvas_mut ==
  /\ pc = "loading"
  /\ \E i \in DOMAIN decode : decode[i] = "loaded"
  /\ LET n == Len(images)
         w == calcCanvasWidth(cfg.layout, images, cfg.spacing, cfg.maxWidth)
         h == calcCanvasHeight(cfg.layout, images, cfg.spacing, cfg.maxWidth)
     IN  /\ sizing' = [scale |-> sizeScale(cfg.layout, images, cfg.maxWidth),
                       cols |-> IF cfg.layout = "grid" THEN gridCols(n) ELSE 0,
                       rows |-> IF cfg.layout = "grid" THEN gridRows(n) ELSE 0,
                       canvasWidth |-> w,
                       canvasHeight |-> h]
         /\ canvas' = [width |-> RFloor(w), height |-> RFloor(h)]
  /\ pc' = "context"
  /\ UNCHANGED <<pdfVars, appVars>>
  /\ UNCHANGED <<imageFiles, options, decode, images, cfg, filled, draw,
                 placements, result, run, prev>>

\* Promise.all resolved: the canvas is sized and created
CreateCanvas ==
  /\ pc = "loading"
  /\ \A i \in DOMAIN decode : decode[i] = "loaded"
  /\ LET n == Len(images)
         w == calcCanvasWidth(cfg.layout, images, cfg.spacing, cfg.maxWidth)
         h == calcCanvasHeight(cfg.layout, images, cfg.spacing, cfg.maxWidth)
     IN  /\ sizing' = [scale |-> sizeScale(cfg.layout, images, cfg.maxWidth),
                       cols |-> IF cfg.layout = "grid" THEN gridCols(n) ELSE 0,
                       rows |-> IF cfg.layout = "grid" THEN gridRows(n) ELSE 0,
                       canvasWidth |-> w,
                       canvasHeight |-> h]
         /\ canvas' = [width |-> RFloor(w), height |-> RFloor(h)]
  /\ pc' = "context"
  /\ UNCHANGED <<pdfVars, appVars>>
  /\ UNCHANGED <<imageFiles, options, decode, images, cfg, filled, draw,
                 placements, result, run, prev>>

\* canvas.getContext('2d') returns null
ContextUnavailable ==
  /\ pc = "context"
  /\ result' = Failure("Could not create canvas context")
  /\ pc' = "done"
  /\ UNCHANGED <<pdfVars, appVars>>
  /\ UNCHANGED <<imageFiles, options, decode, images, cfg, sizing, canvas,
                 filled, draw, placements, run, prev>>

\* the context is there: fill the background, set up the draw branch
FillBackground ==
  /\ pc = "context"
  /\ filled' = TRUE
  /\ draw' = [scale |-> drawScale(cfg.layout, images, canvas, cfg.spacing),
              cols |-> IF cfg.layout = "grid"
                         THEN gridCols(Len(images)) ELSE 0,
              x |-> R(0), y |-> R(0), i |-> 1]
  /\ pc' = "draw"
  /\ UNCHANGED <<pdfVars, appVars>>
  /\ UNCHANGED <<imageFiles, options, decode, images, cfg, sizing, canvas,
                 placements, result, run, prev>>

\* one iteration of the draw loop
DrawImage ==
  /\ pc = "draw"
  /\ draw.i <= Len(images)
  /\ LET img == images[draw.i]
         px == drawX(cfg.layout, images, draw.i, canvas, cfg.spacing,
                     draw.scale, draw.x)
         py == drawY(cfg.layout, images, draw.i, canvas, cfg.spacing,
                     draw.scale, draw.y)
     IN  /\ placements' = Append(placements,
                            [x |-> px, y |-> py,
                             scaledWidth |-> scaledWidthOf(img, draw.scale),
                             scaledHeight |-> scaledHeightOf(img, draw.scale)])
         /\ draw' = [draw EXCEPT
                       !.x = nextX(cfg.layout, img, cfg.spacing, draw.scale,
                                   draw.x, px),
                       !.y = nextY(cfg.layout, img, cfg.spacing, draw.scale,
                                   draw.y, py),
                       !.i = draw.i + 1]
  /\ UNCHANGED <<pdfVars, appVars>>
  /\ UNCHANGED <<imageFiles, options, pc, decode, images, cfg, sizing, canvas,
                 filled, result, run, prev>>

\* the canvas is encoded before the draw loop has ended
EncodeBlob_mut ==
  /\ pc = "draw"
  /\ result' = Success
  /\ pc' = "done"
  /\ UNCHANGED <<pdfVars, appVars>>
  /\ UNCHANGED <<imageFiles, options, decode, images, cfg, sizing, canvas,
                 filled, draw, placements, run, prev>>

\* canvas.toBlob yields a blob: the success result is returned
EncodeBlob ==
  /\ pc = "draw"
  /\ draw.i > Len(images)
  /\ result' = Success
  /\ pc' = "done"
  /\ UNCHANGED <<pdfVars, appVars>>
  /\ UNCHANGED <<imageFiles, options, decode, images, cfg, sizing, canvas,
                 filled, draw, placements, run, prev>>

\* canvas.toBlob yields null: the promise rejects and the catch block returns
EncodeFails ==
  /\ pc = "draw"
  /\ draw.i > Len(images)
  /\ result' = caught("Failed to create image blob")
  /\ pc' = "done"
  /\ UNCHANGED <<pdfVars, appVars>>
  /\ UNCHANGED <<imageFiles, options, decode, images, cfg, sizing, canvas,
                 filled, draw, placements, run, prev>>

\* the caller merges the same files with the same options once more
CallAgain ==
  /\ pc = "done"
  /\ run = 1
  /\ result.success
  /\ prev' = [canvas |-> canvas, placements |-> placements]
  /\ run' = 2
  /\ pc' = "start"
  /\ decode' = [i \in DOMAIN imageFiles |-> "none"]
  /\ images' = [i \in DOMAIN imageFiles |-> NoImage]
  /\ cfg' = NoCfg
  /\ sizing' = NoSizing
  /\ canvas' = NoCanvas
  /\ filled' = FALSE
  /\ draw' = NoDraw
  /\ placements' = <<>>
  /\ result' = NoResult
  /\ UNCHANGED <<pdfVars, appVars>>
  /\ UNCHANGED <<imageFiles, options>>

Next ==
  \/ RejectArguments
  \/ StartLoading
  \/ \E i \in DOMAIN imageFiles : DecodeResolve(i)
  \/ \E i \in DOMAIN imageFiles : DecodeReject(i)
  \/ CreateCanvas
  \/ ContextUnavailable
  \/ FillBackground
  \/ DrawImage
  \/ EncodeBlob
  \/ EncodeFails

Spec == Init /\ [][Next]_vars

\* two calls in a row with the same arguments
NextTwice ==
  \/ RejectArguments
  \/ StartLoading
  \/ \E i \in DOMAIN imageFiles : DecodeResolve(i)
  \/ \E i \in DOMAIN imageFiles : DecodeReject(i)
  \/ CreateCanvas
  \/ ContextUnavailable
  \/ FillBackground
  \/ DrawImage
  \/ EncodeBlob
  \/ EncodeFails
  \/ CallAgain

SpecTwice == Init /\ [][NextTwice]_vars

TypeOK ==
  /\ pc \in {"idle", "start", "loading", "context", "draw", "done"}
  /\ Len(placements) <= Len(imageFiles)

(* ================= pdfUtils: mergePDFs and imagesToPDF ================= *)

\* the longest list of PDF files given to mergePDFs
MaxPdfs == 3

\* the most pages a PDF file has
MaxPages == 2

\* the longest list of image files given to imagesToPDF
MaxPdfImages == 3

ImageTypes == {"image/png", "image/jpeg", "image/webp"}

\* a PDF file: its number of pages, and whether PDFDocument.load accepts it
PdfFiles == [pageCount : 1..MaxPages, loadable : BOOLEAN]

\* an image file: MIME type, natural size, and whether pdf-lib can embed it
PdfImageFiles == [type : ImageTypes, dim : Dims, embeddable : BOOLEAN]

PdfLists == UNION { [1..n -> PdfFiles] : n \in 0..MaxPdfs }

PdfImageLists == UNION { [1..n -> PdfImageFiles] : n \in 0..MaxPdfImages }

\* return { success: false, error }
PdfFailure(msg) == [success |-> FALSE, error |-> msg, returned |-> TRUE,
                    data |-> FALSE, pages |-> <<>>]

\* return { success: true, data: blob of the saved document, url, filename }
PdfSuccess(doc) == [success |-> TRUE, error |-> "", returned |-> TRUE,
                    data |-> TRUE, pages |-> doc]

\* mergedPdf.copyPages(pdf, pdf.getPageIndices()) for the k-th file
copyPages(k, file) == [j \in 1..file.pageCount |-> [file |-> k, page |-> j]]

\* the copied pages put in front of the document
addPages_mut(doc, pages) == pages \o doc

\* copiedPages.forEach((page) => mergedPdf.addPage(page))
addPages(doc, pages) == doc \o pages

\* the embed call chosen by the file's type
embedKind(type) ==
  IF type = "image/png" THEN "embedPng"
  ELSE IF type = "image/jpeg" \/ type = "image/jpg" THEN "embedJpg"
  ELSE "convertImageToJpeg+embedJpg"

\* every page of one fixed size (A4 in points)
imagePage_mut(k, file) ==
  [image |-> k, width |-> 595, height |-> 842, embed |-> embedKind(file.type)]

\* pdfDoc.addPage([pdfImage.width, pdfImage.height]) and page.drawImage
imagePage(k, file) ==
  [image |-> k, width |-> file.dim.width, height |-> file.dim.height,
   embed |-> embedKind(file.type)]

PdfInit ==
  /\ \/ pdfFn = "mergePDFs" /\ pdfInput \in PdfLists
     \/ pdfFn = "imagesToPDF" /\ pdfInput \in PdfImageLists
  /\ pdfPc = "start"
  /\ pdfIdx = 0
  /\ pdfDoc = <<>>
  /\ pdfResult = NoPdfResult

InitPdf == MergeIdle /\ PdfInit /\ AppInit

\* mergePDFs: no file, or a single file
MergePDFsRejectArguments ==
  /\ pdfFn = "mergePDFs"
  /\ pdfPc = "start"
  /\ Len(pdfInput) <= 1
  /\ pdfResult' = IF Len(pdfInput) = 0
                    THEN PdfFailure("No PDF files selected")
                    ELSE PdfFailure("Please select at least 2 PDF files to merge")
  /\ pdfPc' = "done"
  /\ UNCHANGED <<pdfFn, pdfInput, pdfIdx, pdfDoc>>
  /\ UNCHANGED <<mergeVars, appVars>>

\* imagesToPDF: no file
ImagesToPDFRejectArguments ==
  /\ pdfFn = "imagesToPDF"
  /\ pdfPc = "start"
  /\ Len(pdfInput) = 0
  /\ pdfResult' = PdfFailure("No images selected")
  /\ pdfPc' = "done"
  /\ UNCHANGED <<pdfFn, pdfInput, pdfIdx, pdfDoc>>
  /\ UNCHANGED <<mergeVars, appVars>>

\* await PDFDocument.create(), and the loop starts
PdfCreate ==
  /\ pdfPc = "start"
  /\ \/ pdfFn = "mergePDFs" /\ Len(pdfInput) >= 2
     \/ pdfFn = "imagesToPDF" /\ Len(pdfInput) >= 1
  /\ pdfDoc' = <<>>
  /\ pdfIdx' = 1
  /\ pdfPc' = "loop"
  /\ UNCHANGED <<pdfFn, pdfInput, pdfResult>>
  /\ UNCHANGED <<mergeVars, appVars>>

\* mergePDFs, one iteration: the file loads and its pages are appended
MergePDFsCopyFile ==
  /\ pdfFn = "mergePDFs"
  /\ pdfPc = "loop"
  /\ pdfIdx <= Len(pdfInput)
  /\ pdfInput[pdfIdx].loadable
  /\ pdfDoc' = addPages(pdfDoc, copyPages(pdfIdx, pdfInput[pdfIdx]))
  /\ pdfIdx' = pdfIdx + 1
  /\ UNCHANGED <<pdfFn, pdfInput, pdfPc, pdfResult>>
  /\ UNCHANGED <<mergeVars, appVars>>

\* mergePDFs, one iteration: PDFDocument.load throws, the catch block returns
MergePDFsLoadFails ==
  /\ pdfFn = "mergePDFs"
  /\ pdfPc = "loop"
  /\ pdfIdx <= Len(pdfInput)
  /\ ~pdfInput[pdfIdx].loadable
  /\ pdfResult' = PdfFailure("Failed to parse PDF document")
  /\ pdfPc' = "done"
  /\ UNCHANGED <<pdfFn, pdfInput, pdfIdx, pdfDoc>>
  /\ UNCHANGED <<mergeVars, appVars>>

\* imagesToPDF, one iteration: the image is embedded and gets its own page
ImagesToPDFAddPage ==
  /\ pdfFn = "imagesToPDF"
  /\ pdfPc = "loop"
  /\ pdfIdx <= Len(pdfInput)
  /\ pdfInput[pdfIdx].embeddable
  /\ pdfDoc' = Append(pdfDoc, imagePage(pdfIdx, pdfInput[pdfIdx]))
  /\ pdfIdx' = pdfIdx + 1
  /\ UNCHANGED <<pdfFn, pdfInput, pdfPc, pdfResult>>
  /\ UNCHANGED <<mergeVars, appVars>>

\* imagesToPDF, one iteration: the embed throws, the catch block returns
ImagesToPDFEmbedFails ==
  /\ pdfFn = "imagesToPDF"
  /\ pdfPc = "loop"
  /\ pdfIdx <= Len(pdfInput)
  /\ ~pdfInput[pdfIdx].embeddable
  /\ pdfResult' = PdfFailure("Failed to embed image")
  /\ pdfPc' = "done"
  /\ UNCHANGED <<pdfFn, pdfInput, pdfIdx, pdfDoc>>
  /\ UNCHANGED <<mergeVars, appVars>>

\* the loop is over: the document is saved and returned
PdfSave ==
  /\ pdfPc = "loop"
  /\ pdfIdx > Len(pdfInput)
  /\ pdfResult' = PdfSuccess(pdfDoc)
  /\ pdfPc' = "done"
  /\ UNCHANGED <<pdfFn, pdfInput, pdfIdx, pdfDoc>>
  /\ UNCHANGED <<mergeVars, appVars>>

NextPdf ==
  \/ MergePDFsRejectArguments
  \/ ImagesToPDFRejectArguments
  \/ PdfCreate
  \/ MergePDFsCopyFile
  \/ MergePDFsLoadFails
  \/ ImagesToPDFAddPage
  \/ ImagesToPDFEmbedFails
  \/ PdfSave

SpecPdf == InitPdf /\ [][NextPdf]_vars

(* ============================ App (App.tsx) ============================ *)

\* files in the list or on their way into it at one time
MaxFiles == 2

\* operations awaiting their utility at one time
MaxOps == 2

\* the size limit the app states for one file, in MB
FileSizeLimitMB == 100

Tabs == {"image-to-pdf", "compress-pdf", "compress-image", "merge-pdf",
         "merge-image", "crop-image"}

\* MIME type and size (MB) of the files the user has on disk
DiskFiles == {[type |-> "image/png", size |-> 150],
              [type |-> "application/pdf", size |-> 1]}

\* widths and heights typed into the crop dialog
CropValues == {0, 50}

\* file.type.startsWith('image/')
isImage(f) == f.type \in {"image/png", "image/jpeg", "image/jpg", "image/webp"}

\* file.type === 'application/pdf'
isPdf(f) == f.type = "application/pdf"

\* getAcceptedFileTypes: the accept attribute of the file input
accepted(tab, type) ==
  IF tab \in {"image-to-pdf", "compress-image", "merge-image", "crop-image"}
    THEN type \in {"image/png", "image/jpeg", "image/jpg", "image/webp"}
    ELSE type = "application/pdf"

\* getTabInfo().multiple: the multiple attribute of the file input
multiple(tab) == tab \in {"image-to-pdf", "merge-pdf", "merge-image"}

imagesOf(fs) == SelectSeq(fs, isImage)
pdfsOf(fs) == SelectSeq(fs, isPdf)

\* seq without its k-th element
RemoveAt(seq, k) == SubSeq(seq, 1, k - 1) \o SubSeq(seq, k + 1, Len(seq))

\* the picks the file dialog offers under the tab: one file, or two if multiple
Picks(tab) ==
  LET one == { f \in DiskFiles : accepted(tab, f.type) }
  IN  { <<f>> : f \in one }
        \cup (IF multiple(tab) THEN { <<f, g>> : f \in one, g \in one } ELSE {})

\* the ids of the files in the list or on their way into it
RECURSIVE idsOf(_)
idsOf(seqs) ==
  IF seqs = <<>> THEN {}
  ELSE { Head(seqs)[k].id : k \in DOMAIN Head(seqs) } \cup idsOf(Tail(seqs))

\* generateId(): an id no other file has
RECURSIVE generateId(_, _)
generateId(used, n) ==
  IF n = 0 THEN <<>>
  ELSE LET id == CHOOSE i \in 1..(Cardinality(used) + 1) : i \notin used
       IN  <<id>> \o generateId(used \cup {id}, n - 1)

\* Object.assign(file, { id: generateId() }) for each picked file
withIds(pick, used) ==
  LET ids == generateId(used, Len(pick))
  IN  [k \in DOMAIN pick |->
         [id |-> ids[k], type |-> pick[k].type, size |-> pick[k].size]]

\* what a utility sees of the files it is given
fileInfo(fs) == [k \in DOMAIN fs |-> [type |-> fs[k].type, size |-> fs[k].size]]

\* the files handleFileSelect pushes to newFiles: every picked file, whether
\* createThumbnail made its preview (thumbs[k]) or threw into the catch block
pushed(picked, thumbs) == picked

\* the operations in flight when the file list changes are marked
markStale(ops) == { [op EXCEPT !.stale = TRUE] : op \in ops }

\* handleFileSelect up to its first await; without an image it runs to its end
SelectFiles ==
  /\ ~showCropDialog
  /\ \E pick \in Picks(activeTab) :
       /\ Cardinality(idsOf(<<files>> \o selecting)) + Len(pick) <= MaxFiles
       /\ LET newFiles == withIds(pick, idsOf(<<files>> \o selecting))
          IN  IF \E k \in DOMAIN newFiles : isImage(newFiles[k])
                THEN /\ selecting' = Append(selecting, newFiles)
                     /\ UNCHANGED <<files, processing, inflight>>
                ELSE /\ files' = files \o newFiles
                     /\ processing' = IdleProcessing
                     /\ inflight' = markStale(inflight)
                     /\ UNCHANGED selecting
  /\ called' = NoCall
  /\ UNCHANGED <<activeTab, selectedImageForCrop, showCropDialog, cropArea>>
  /\ UNCHANGED <<mergeVars, pdfVars>>

\* the new files are put in place of the list
FinishSelect_mut(k) ==
  /\ k \in DOMAIN selecting
  /\ \E thumbs \in [DOMAIN selecting[k] -> BOOLEAN] :
       files' = pushed(selecting[k], thumbs)
  /\ selecting' = RemoveAt(selecting, k)
  /\ processing' = IdleProcessing
  /\ inflight' = markStale(inflight)
  /\ called' = NoCall
  /\ UNCHANGED <<activeTab, selectedImageForCrop, showCropDialog, cropArea>>
  /\ UNCHANGED <<mergeVars, pdfVars>>

\* handleFileSelect after its last thumbnail, made or failed: setFiles with
\* the functional update, and setProcessing
FinishSelect(k) ==
  /\ k \in DOMAIN selecting
  /\ \E thumbs \in [DOMAIN selecting[k] -> BOOLEAN] :
       files' = files \o pushed(selecting[k], thumbs)
  /\ selecting' = RemoveAt(selecting, k)
  /\ processing' = IdleProcessing
  /\ inflight' = markStale(inflight)
  /\ called' = NoCall
  /\ UNCHANGED <<activeTab, selectedImageForCrop, showCropDialog, cropArea>>
  /\ UNCHANGED <<mergeVars, pdfVars>>

\* removeFile(id)
RemoveFile(k) ==
  /\ ~showCropDialog
  /\ k \in DOMAIN files
  /\ files' = SelectSeq(files, LAMBDA f : f.id # files[k].id)
  /\ processing' = IdleProcessing
  /\ inflight' = markStale(inflight)
  /\ called' = NoCall
  /\ UNCHANGED <<activeTab, selectedImageForCrop, showCropDialog, cropArea,
                 selecting>>
  /\ UNCHANGED <<mergeVars, pdfVars>>

\* clearFiles: the Clear button is shown while the list is not empty
ClearFiles ==
  /\ ~showCropDialog
  /\ files # <<>>
  /\ files' = <<>>
  /\ processing' = IdleProcessing
  /\ inflight' = markStale(inflight)
  /\ called' = NoCall
  /\ UNCHANGED <<activeTab, selectedImageForCrop, showCropDialog, cropArea,
                 selecting>>
  /\ UNCHANGED <<mergeVars, pdfVars>>

\* <Tabs onValueChange={setActiveTab}>
SetActiveTab(t) ==
  /\ ~showCropDialog
  /\ t \in Tabs
  /\ t # activeTab
  /\ activeTab' = t
  /\ called' = NoCall
  /\ UNCHANGED <<files, processing, selectedImageForCrop, showCropDialog,
                 cropArea, selecting, inflight>>
  /\ UNCHANGED <<mergeVars, pdfVars>>

\* the Process button: disabled={files.length === 0 || processing.isProcessing}
processEnabled ==
  /\ ~showCropDialog
  /\ files # <<>>
  /\ ~processing.isProcessing
  /\ Cardinality(inflight) < MaxOps

\* the operation started keeps the previous result while it runs
callUtility_mut(util, args, progress) ==
  /\ processing' = [processing EXCEPT !.isProcessing = TRUE,
                                      !.progress = progress]
  /\ called' = [util |-> util, args |-> fileInfo(args)]
  /\ inflight' = inflight \cup
       {[id |-> CHOOSE i \in 1..MaxOps : \A op \in inflight : op.id # i,
         closesDialog |-> (util = "cropImage"), stale |-> FALSE]}

\* the utility is called with args and the handler awaits its promise
callUtility(util, args, progress) ==
  /\ processing' = [isProcessing |-> TRUE, progress |-> progress,
                    result |-> NoAppResult, error |-> "null"]
  /\ called' = [util |-> util, args |-> fileInfo(args)]
  /\ inflight' = inflight \cup
       {[id |-> CHOOSE i \in 1..MaxOps : \A op \in inflight : op.id # i,
         closesDialog |-> (util = "cropImage"), stale |-> FALSE]}

\* the handler throws before it calls the utility: its catch block
failEarly(msg) ==
  /\ processing' = [isProcessing |-> FALSE, progress |-> 0,
                    result |-> NoAppResult, error |-> msg]
  /\ called' = NoCall
  /\ UNCHANGED inflight

\* the handler starts the operation although its guard fails
returnAtGuard_mut ==
  /\ called' = NoCall
  /\ processing' = [isProcessing |-> TRUE, progress |-> 10,
                    result |-> NoAppResult, error |-> "null"]
  /\ UNCHANGED inflight

\* the handler returns at a guard, after a toast
returnAtGuard ==
  /\ called' = NoCall
  /\ UNCHANGED <<processing, inflight>>

\* processImageToPDF up to its await
ProcessImageToPDF ==
  /\ processEnabled
  /\ activeTab = "image-to-pdf"
  /\ IF Len(files) = 0 THEN returnAtGuard
     ELSE IF Len(imagesOf(files)) = 0
       THEN failEarly("No valid image files selected")
     ELSE callUtility("imagesToPDF", imagesOf(files), 30)
  /\ UNCHANGED <<files, activeTab, selectedImageForCrop, showCropDialog,
                 cropArea, selecting>>
  /\ UNCHANGED <<mergeVars, pdfVars>>

\* processPDFCompression up to its await
ProcessPDFCompression ==
  /\ processEnabled
  /\ activeTab = "compress-pdf"
  /\ IF Len(files) = 0 THEN returnAtGuard
     ELSE IF Len(files) > 1
       THEN returnAtGuard
     ELSE IF ~isPdf(files[1])
       THEN returnAtGuard
     ELSE callUtility("compressPDF", <<files[1]>>, 40)
  /\ UNCHANGED <<files, activeTab, selectedImageForCrop, showCropDialog,
                 cropArea, selecting>>
  /\ UNCHANGED <<mergeVars, pdfVars>>

\* processImageCompression up to its await
ProcessImageCompression ==
  /\ processEnabled
  /\ activeTab = "compress-image"
  /\ IF Len(files) = 0 THEN returnAtGuard
     ELSE IF Len(imagesOf(files)) = 0
       THEN failEarly("No valid image files selected")
     ELSE callUtility("compressImage", <<imagesOf(files)[1]>>, 30)
  /\ UNCHANGED <<files, activeTab, selectedImageForCrop, showCropDialog,
                 cropArea, selecting>>
  /\ UNCHANGED <<mergeVars, pdfVars>>

\* processPDFMerge up to its await
ProcessPDFMerge ==
  /\ processEnabled
  /\ activeTab = "merge-pdf"
  /\ IF Len(files) < 2
       THEN returnAtGuard
     ELSE IF Len(pdfsOf(files)) < 2
       THEN returnAtGuard
     ELSE callUtility("mergePDFs", pdfsOf(files), 40)
  /\ UNCHANGED <<files, activeTab, selectedImageForCrop, showCropDialog,
                 cropArea, selecting>>
  /\ UNCHANGED <<mergeVars, pdfVars>>

\* processImageMerge up to its await
ProcessImageMerge ==
  /\ processEnabled
  /\ activeTab = "merge-image"
  /\ IF Len(files) < 2
       THEN returnAtGuard
     ELSE IF Len(imagesOf(files)) < 2
       THEN returnAtGuard
     ELSE callUtility("mergeImages", imagesOf(files), 40)
  /\ UNCHANGED <<files, activeTab, selectedImageForCrop, showCropDialog,
                 cropArea, selecting>>
  /\ UNCHANGED <<mergeVars, pdfVars>>

\* handleProcess on the crop tab: the dialog opens on files[0]
OpenCropDialog ==
  /\ processEnabled
  /\ activeTab = "crop-image"
  /\ Len(files) > 0
  /\ selectedImageForCrop' = files[1]
  /\ showCropDialog' = TRUE
  /\ called' = NoCall
  /\ UNCHANGED <<files, activeTab, processing, cropArea, selecting, inflight>>
  /\ UNCHANGED <<mergeVars, pdfVars>>

\* the width and height inputs of the crop dialog
SetCropArea(field, v) ==
  /\ showCropDialog
  /\ cropArea[field] # v
  /\ cropArea' = [cropArea EXCEPT ![field] = v]
  /\ called' = NoCall
  /\ UNCHANGED <<files, activeTab, processing, selectedImageForCrop,
                 showCropDialog, selecting, inflight>>
  /\ UNCHANGED <<mergeVars, pdfVars>>

\* the Cancel button of the crop dialog
CancelCrop ==
  /\ showCropDialog
  /\ showCropDialog' = FALSE
  /\ called' = NoCall
  /\ UNCHANGED <<files, activeTab, processing, selectedImageForCrop, cropArea,
                 selecting, inflight>>
  /\ UNCHANGED <<mergeVars, pdfVars>>

\* processImageCrop up to its await: the Apply Crop button of the dialog
ApplyCrop ==
  /\ showCropDialog
  /\ Cardinality(inflight) < MaxOps
  /\ IF selectedImageForCrop = NoFile
       THEN returnAtGuard
     ELSE IF cropArea.width = 0 \/ cropArea.height = 0
       THEN returnAtGuard
     ELSE callUtility("cropImage", <<selectedImageForCrop>>, 50)
  /\ UNCHANGED <<files, activeTab, selectedImageForCrop, showCropDialog,
                 cropArea, selecting>>
  /\ UNCHANGED <<mergeVars, pdfVars>>

\* the utility resolved with success: true
CompleteOk(id) ==
  \E op \in inflight :
    /\ op.id = id
    /\ processing' = [isProcessing |-> FALSE, progress |-> 100,
                      result |-> AppResult, error |-> "null"]
    /\ showCropDialog' = IF op.closesDialog THEN FALSE ELSE showCropDialog
    /\ inflight' = inflight \ {op}
    /\ called' = NoCall
    /\ UNCHANGED <<files, activeTab, selectedImageForCrop, cropArea, selecting>>
    /\ UNCHANGED <<mergeVars, pdfVars>>

\* the rejection escapes the handler: no catch block
CompleteFailed_mut(id) ==
  \E op \in inflight :
    /\ op.id = id
    /\ inflight' = inflight \ {op}
    /\ called' = NoCall
    /\ UNCHANGED <<files, activeTab, processing, selectedImageForCrop,
                   showCropDialog, cropArea, selecting>>
    /\ UNCHANGED <<mergeVars, pdfVars>>

\* the utility resolved with success: false, or rejected: the catch block
CompleteFailed(id) ==
  \E op \in inflight :
    /\ op.id = id
    /\ processing' = [isProcessing |-> FALSE, progress |-> 0,
                      result |-> NoAppResult, error |-> "failed"]
    /\ inflight' = inflight \ {op}
    /\ called' = NoCall
    /\ UNCHANGED <<files, activeTab, selectedImageForCrop, showCropDialog,
                   cropArea, selecting>>
    /\ UNCHANGED <<mergeVars, pdfVars>>

NextApp ==
  \/ SelectFiles
  \/ \E k \in 1..MaxFiles : FinishSelect(k)
  \/ \E k \in 1..MaxFiles : RemoveFile(k)
  \/ ClearFiles
  \/ \E t \in Tabs : SetActiveTab(t)
  \/ ProcessImageToPDF
  \/ ProcessPDFCompression
  \/ ProcessImageCompression
  \/ ProcessPDFMerge
  \/ ProcessImageMerge
  \/ OpenCropDialog
  \/ \E field \in {"width", "height"}, v \in CropValues : SetCropArea(field, v)
  \/ CancelCrop
  \/ ApplyCrop
  \/ \E id \in 1..MaxOps : CompleteOk(id)
  \/ \E id \in 1..MaxOps : CompleteFailed(id)

InitApp == MergeIdle /\ PdfIdle /\ AppInit

SpecApp == InitApp /\ [][NextApp]_vars

\* the promise of every utility called settles
SpecAppFair ==
  /\ InitApp
  /\ [][NextApp]_vars
  /\ \A id \in 1..MaxOps : WF_vars(CompleteOk(id) \/ CompleteFailed(id))

(* ======================= properties of mergeImages ===================== *)

\* the draw loop has drawn every image
AllDrawn == pc \in {"draw", "done"} /\ filled /\ Len(placements) = Len(imageFiles)

\* the canvas was created
HasCanvas == canvas # NoCanvas

RMax(a, b) == IF RLe(a, b) THEN b ELSE a

RAbs(a) == [num |-> Abs(a.num), den |-> a.den]

\* C1: a call with fewer than 2 images (0 or 1) returns a failure result with
\* an error message, and no image was decoded and no canvas created by then.
C1_TooFewImagesFail ==
  Len(imageFiles) < 2 =>
    /\ pc \in {"start", "done"}
    /\ \A i \in DOMAIN decode : decode[i] = "none"
    /\ canvas = NoCanvas
    /\ placements = <<>>
    /\ pc = "done" =>
         /\ result.returned
         /\ ~result.success
         /\ result.error # ""
         /\ ~result.data

C1_Witness ==
  /\ Len(imageFiles) = 1
  /\ pc = "done"
  /\ result.returned
  /\ ~result.success

\* C2 (as claimed): for n >= 2 images, every layout, spacing >= 0 and
\* maxWidth > 0 the canvas has width > 0, height > 0 and width <= maxWidth.
C2_CanvasPositiveWithinMaxWidth ==
  (HasCanvas /\ Len(imageFiles) >= 2) =>
    /\ canvas.width > 0
    /\ canvas.height > 0
    /\ canvas.width <= cfg.maxWidth

\* sum over the drawn images of scaledWidth + spacing
RECURSIVE SumAdvanceW(_, _)
SumAdvanceW(ps, spacing) ==
  IF ps = <<>> THEN R(0)
  ELSE RAdd(RAdd(ps[1].scaledWidth, R(spacing)), SumAdvanceW(Tail(ps), spacing))

\* sum over the drawn images of scaledHeight + spacing
RECURSIVE SumAdvanceH(_, _)
SumAdvanceH(ps, spacing) ==
  IF ps = <<>> THEN R(0)
  ELSE RAdd(RAdd(ps[1].scaledHeight, R(spacing)), SumAdvanceH(Tail(ps), spacing))

\* C3 (as claimed): in horizontal layout the advances scaledWidth + spacing,
\* less the trailing spacing, sum to the canvas width, and in vertical layout
\* the advances scaledHeight + spacing, less the trailing spacing, sum to the
\* canvas height, up to rounding (less than one pixel, the loss of Math.floor).
C3_AdvanceSumEqualsCanvas ==
  AllDrawn =>
    /\ cfg.layout = "horizontal" =>
         RLt(RAbs(RSub(RSub(SumAdvanceW(placements, cfg.spacing), R(cfg.spacing)),
                       R(canvas.width))),
             R(1))
    /\ cfg.layout = "vertical" =>
         RLt(RAbs(RSub(RSub(SumAdvanceH(placements, cfg.spacing), R(cfg.spacing)),
                       R(canvas.height))),
             R(1))

\* the rectangles of two placements share a region of positive area
Overlap(p, q) ==
  /\ RLt(RMax(p.x, q.x), RMin(RAdd(p.x, p.scaledWidth), RAdd(q.x, q.scaledWidth)))
  /\ RLt(RMax(p.y, q.y), RMin(RAdd(p.y, p.scaledHeight), RAdd(q.y, q.scaledHeight)))

\* the number of columns of the grid of n images: the least c with c*c >= n
ColsFor(n) == CHOOSE c \in 1..n : c * c >= n /\ (c - 1) * (c - 1) < n

\* the number of rows of the grid of n images: the least r with r*cols >= n
RowsFor(n) == CHOOSE r \in 1..n : r * ColsFor(n) >= n /\ (r - 1) * ColsFor(n) < n

\* placement i lies in the cell (row, col) = ((i-1) div cols, (i-1) mod cols)
\* of the regular grid of cells cellW x cellH whose neighbours are spacing apart
InOwnCell(i) ==
  LET cols  == ColsFor(Len(imageFiles))
      col   == (i - 1) % cols
      row   == (i - 1) \div cols
      cellW == RMul(R(MaxWidthOf(imageFiles)), draw.scale)
      cellH == RMul(R(MaxHeightOf(imageFiles)), draw.scale)
      left  == RMul(R(col), RAdd(cellW, R(cfg.spacing)))
      top   == RMul(R(row), RAdd(cellH, R(cfg.spacing)))
      p     == placements[i]
  IN  /\ row < RowsFor(Len(imageFiles))
      /\ RLe(left, p.x)
      /\ RLe(RAdd(p.x, p.scaledWidth), RAdd(left, cellW))
      /\ RLe(top, p.y)
      /\ RLe(RAdd(p.y, p.scaledHeight), RAdd(top, cellH))

\* C4: for n >= 2 images no two placements overlap in horizontal and vertical
\* layout, and in grid layout every image lies inside its own cell of a regular
\* rows x cols grid whose adjacent cells are spacing pixels apart.
C4_PlacementsDisjoint ==
  /\ cfg.layout \in {"horizontal", "vertical"} =>
       \A i, j \in DOMAIN placements :
         i # j => ~Overlap(placements[i], placements[j])
  /\ cfg.layout = "grid" =>
       \A i \in DOMAIN placements : InOwnCell(i)

C4_Witness ==
  /\ AllDrawn
  /\ Len(imageFiles) = 5
  /\ cfg.layout = "grid"
  /\ RLt(R(0), placements[5].scaledWidth)
  /\ RLt(R(0), placements[5].y)

\* C5: within one call every image is drawn with one and the same scale
\* factor s: scaledWidth_i / width_i = scaledHeight_i / height_i = s.
C5_UniformScale ==
  \A i, j \in DOMAIN placements :
    /\ RDiv(placements[i].scaledWidth, R(imageFiles[i].width))
         = RDiv(placements[i].scaledHeight, R(imageFiles[i].height))
    /\ RDiv(placements[i].scaledWidth, R(imageFiles[i].width))
         = RDiv(placements[j].scaledWidth, R(imageFiles[j].width))

C5_Witness ==
  /\ AllDrawn
  /\ Len(imageFiles) >= 3
  /\ \E i, j \in DOMAIN imageFiles : imageFiles[i] # imageFiles[j]
  /\ RLt(R(0), placements[1].scaledWidth)
  /\ RLt(draw.scale, R(1))

\* C6: in horizontal layout, with scale = min(1, maxWidth / totalWidth), the
\* canvas is floor((totalWidth + spacing*(n-1)) * scale) wide and
\* floor(maxHeight * scale) high; 100x200 and 300x100 with spacing 10 and
\* maxWidth 1200 give a 410 x 200 canvas.
C6_HorizontalCanvas ==
  (HasCanvas /\ cfg.layout = "horizontal") =>
    LET n  == Len(imageFiles)
        tw == SumWidth(imageFiles)
        mh == MaxHeightOf(imageFiles)
        gross == tw + cfg.spacing * (n - 1)
    IN  /\ cfg.maxWidth >= tw =>
             (canvas.width = gross /\ canvas.height = mh)
        /\ cfg.maxWidth < tw =>
             /\ canvas.width = (gross * cfg.maxWidth) \div tw
             /\ canvas.height = (mh * cfg.maxWidth) \div tw
        /\ ( /\ imageFiles = << [width |-> 100, height |-> 200],
                                [width |-> 300, height |-> 100] >>
             /\ cfg.spacing = 10
             /\ cfg.maxWidth = 1200 )
           => (canvas.width = 410 /\ canvas.height = 200)

C6_Witness ==
  /\ cfg.layout = "horizontal"
  /\ imageFiles = << [width |-> 100, height |-> 200],
                     [width |-> 300, height |-> 100] >>
  /\ cfg.spacing = 10
  /\ cfg.maxWidth = 1200
  /\ canvas = [width |-> 410, height |-> 200]

\* C7: in vertical layout, with scale = min(1, maxWidth / maxImageWidth), the
\* canvas is floor(maxImageWidth * scale) wide and
\* floor((sum of heights + spacing*(n-1)) * scale) high, every image is
\* horizontally centered with offsetX = (canvasWidth - scaledWidth)/2 >= 0 and
\* the images are stacked top to bottom in input order; 100x200 and 300x100
\* with spacing 10 and maxWidth 1200 give a 300 x 310 canvas.
C7_VerticalCanvas ==
  (HasCanvas /\ cfg.layout = "vertical") =>
    LET n  == Len(imageFiles)
        mw == MaxWidthOf(imageFiles)
        th == SumHeight(imageFiles)
        gross == th + cfg.spacing * (n - 1)
    IN  /\ cfg.maxWidth >= mw =>
             (canvas.width = mw /\ canvas.height = gross)
        /\ cfg.maxWidth < mw =>
             /\ canvas.width = cfg.maxWidth
             /\ canvas.height = (gross * cfg.maxWidth) \div mw
        /\ ( /\ imageFiles = << [width |-> 100, height |-> 200],
                                [width |-> 300, height |-> 100] >>
             /\ cfg.spacing = 10
             /\ cfg.maxWidth = 1200 )
           => (canvas.width = 300 /\ canvas.height = 310)
        /\ \A i \in DOMAIN placements :
             /\ RLe(R(0), placements[i].x)
             /\ RAdd(RAdd(placements[i].x, placements[i].x),
                     placements[i].scaledWidth) = R(canvas.width)
             /\ i = 1 => placements[i].y = R(0)
             /\ i > 1 => RLe(RAdd(placements[i - 1].y,
                                  placements[i - 1].scaledHeight),
                             placements[i].y)

C7_Witness ==
  /\ cfg.layout = "vertical"
  /\ AllDrawn
  /\ imageFiles = << [width |-> 100, height |-> 200],
                     [width |-> 300, height |-> 100] >>
  /\ cfg.spacing = 10
  /\ cfg.maxWidth = 1200
  /\ canvas = [width |-> 300, height |-> 310]
  /\ placements[1].x = R(100)
  /\ placements[2].y = R(210)

\* C8: in grid layout cols = ceil(sqrt(n)) and rows = ceil(n / cols), so that
\* rows*cols >= n and (rows-1)*cols < n; n=4 gives 2x2, n=5 gives cols 3 and
\* rows 2, n=2 gives cols 2 and rows 1; placing uses the cols of sizing.
C8_GridColsRows ==
  (HasCanvas /\ cfg.layout = "grid") =>
    LET n == Len(imageFiles)
    IN  /\ sizing.cols * sizing.cols >= n
        /\ (sizing.cols - 1) * (sizing.cols - 1) < n
        /\ sizing.rows * sizing.cols >= n
        /\ (sizing.rows - 1) * sizing.cols < n
        /\ n = 2 => (sizing.cols = 2 /\ sizing.rows = 1)
        /\ n = 4 => (sizing.cols = 2 /\ sizing.rows = 2)
        /\ n = 5 => (sizing.cols = 3 /\ sizing.rows = 2)
        /\ pc \in {"draw", "done"} /\ filled => draw.cols = sizing.cols

C8_Witness ==
  /\ cfg.layout = "grid"
  /\ Len(imageFiles) = 5
  /\ AllDrawn
  /\ sizing.cols = 3
  /\ sizing.rows = 2
  /\ draw.cols = 3

\* C9 (as claimed): in grid layout the canvas width equals maxWidth and the
\* draw scale equals canvasWidth / (maxImgWidth*cols + spacing*(cols-1)).
C9_GridCanvasIsMaxWidth ==
  (pc \in {"draw", "done"} /\ filled /\ cfg.layout = "grid") =>
    LET cols == ColsFor(Len(imageFiles))
        span == MaxWidthOf(imageFiles) * cols + cfg.spacing * (cols - 1)
    IN  /\ canvas.width = cfg.maxWidth
        /\ RMul(draw.scale, R(span)) = R(canvas.width)

\* C9 (amended): in grid layout the canvas width equals
\* floor((maxImgWidth*cols + spacing*(cols-1)) * min(1, maxWidth / (maxImgWidth*cols)))
\* and the draw scale equals canvas.width / (maxImgWidth*cols + spacing*(cols-1)).
C9_GridCanvasAndScale ==
  (pc \in {"draw", "done"} /\ filled /\ cfg.layout = "grid") =>
    LET cols == ColsFor(Len(imageFiles))
        cellsW == MaxWidthOf(imageFiles) * cols
        span == cellsW + cfg.spacing * (cols - 1)
    IN  /\ cfg.maxWidth >= cellsW => canvas.width = span
        /\ cfg.maxWidth < cellsW =>
             canvas.width = (span * cfg.maxWidth) \div cellsW
        /\ RMul(draw.scale, R(span)) = R(canvas.width)

C9_Witness ==
  /\ cfg.layout = "grid"
  /\ AllDrawn
  /\ cfg.maxWidth = 1200
  /\ canvas.width < cfg.maxWidth
  /\ RLt(R(0), draw.scale)

\* C10: in horizontal layout no image is drawn larger than its natural size:
\* the scale applied at draw time is <= 1, so scaledWidth_i <= width_i and
\* scaledHeight_i <= height_i for every image.
C10_HorizontalNeverEnlarges ==
  cfg.layout = "horizontal" =>
    /\ RLe(draw.scale, R(1))
    /\ \A i \in DOMAIN placements :
         /\ RLe(placements[i].scaledWidth, R(imageFiles[i].width))
         /\ RLe(placements[i].scaledHeight, R(imageFiles[i].height))

C10_Witness ==
  /\ cfg.layout = "horizontal"
  /\ AllDrawn
  /\ cfg.maxWidth >= SumWidth(imageFiles)
  /\ draw.scale = R(1)
  /\ placements[1].scaledWidth = R(imageFiles[1].width)

\* the value of a configured option, or dflt when the caller left it out
Configured(key, dflt) == IF key \in DOMAIN options THEN options[key] ELSE dflt

\* C11 (as claimed): the distance between adjacent images equals the configured
\* spacing for every configured value, spacing = 0 included, and 10 only when
\* no spacing is configured; maxWidth is 1200 and backgroundColor white only
\* when not configured.
C11_ConfiguredOptionsHonoured ==
  (pc # "start" /\ Len(imageFiles) >= 2) =>
    /\ cfg.spacing = Configured("spacing", 10)
    /\ cfg.maxWidth = Configured("maxWidth", 1200)
    /\ cfg.backgroundColor = Configured("backgroundColor", "#ffffff")
    /\ cfg.layout = "horizontal" =>
         \A i \in DOMAIN placements :
           i > 1 => RSub(placements[i].x,
                         RAdd(placements[i - 1].x, placements[i - 1].scaledWidth))
                      = R(Configured("spacing", 10))
    /\ cfg.layout = "vertical" =>
         \A i \in DOMAIN placements :
           i > 1 => RSub(placements[i].y,
                         RAdd(placements[i - 1].y, placements[i - 1].scaledHeight))
                      = R(Configured("spacing", 10))

\* C12: the promise of mergeImages never rejects: whichever step fails (a
\* decode, the 2D context, the encoder), it resolves to a result with
\* success = false and a non-empty error string.
C12_NeverRejects ==
  /\ ~result.rejected
  /\ pc = "done" =>
       /\ result.returned
       /\ ~result.success => result.error # ""

C12_Witness ==
  /\ pc = "done"
  /\ \E i \in DOMAIN decode : decode[i] = "failed"
  /\ result.returned
  /\ ~result.success
  /\ result.error = "Failed to load image"

\* C13: a merge is all-or-nothing: a result with success = false carries no
\* data, url or filename, a result with success = true carries all three and
\* no error, and if any decode fails the merge fails with nothing drawn or
\* encoded.
C13_AllOrNothing ==
  /\ (result.returned /\ ~result.success) =>
       (~result.data /\ ~result.url /\ ~result.filename)
  /\ result.success =>
       (result.data /\ result.url /\ result.filename /\ result.error = "")
  /\ (\E i \in DOMAIN decode : decode[i] = "failed") =>
       /\ pc = "done"
       /\ result.returned
       /\ ~result.success
       /\ canvas = NoCanvas
       /\ ~filled
       /\ placements = <<>>

C13_Witness ==
  /\ pc = "done"
  /\ \E i, j \in DOMAIN decode : decode[i] = "failed" /\ decode[j] = "loaded"
  /\ ~result.success
  /\ ~result.data

\* C14: two calls with the same image list and the same options produce
\* canvases of identical width and height and identical placements, whatever
\* the order in which the decodes of either call complete.
C14_SameInputsSameLayout ==
  run = 2 =>
    /\ HasCanvas => canvas = prev.canvas
    /\ \A i \in DOMAIN placements : placements[i] = prev.placements[i]

C14_Witness ==
  /\ run = 2
  /\ AllDrawn
  /\ Len(imageFiles) >= 3
  /\ imageFiles[1] # imageFiles[2]
  /\ canvas = prev.canvas
  /\ placements = prev.placements

\* C20: in grid layout image i (input order) is drawn with its top-left corner
\* at x = col*(maxImgWidth*scale + spacing), y = row*(maxImgHeight*scale +
\* spacing), col = i mod cols and row = floor(i / cols) counting i from 0; it
\* is not centered in its cell, and no two images share a (row, col).
C20_GridTopLeftAnchored ==
  cfg.layout = "grid" =>
    LET cols  == ColsFor(Len(imageFiles))
        cellW == RMul(R(MaxWidthOf(imageFiles)), draw.scale)
        cellH == RMul(R(MaxHeightOf(imageFiles)), draw.scale)
    IN  \A i \in DOMAIN placements :
          /\ placements[i].x
               = RMul(R((i - 1) % cols), RAdd(cellW, R(cfg.spacing)))
          /\ placements[i].y
               = RMul(R((i - 1) \div cols), RAdd(cellH, R(cfg.spacing)))
          /\ \A j \in DOMAIN placements :
               j # i => <<placements[j].x, placements[j].y>>
                          # <<placements[i].x, placements[i].y>>

C20_Witness ==
  /\ cfg.layout = "grid"
  /\ AllDrawn
  /\ Len(imageFiles) = 5
  /\ imageFiles[5].width < MaxWidthOf(imageFiles)
  /\ RLt(R(0), draw.scale)
  /\ RLt(R(0), placements[5].x)
  /\ RLt(R(0), placements[5].y)

\* C21: in horizontal layout every image is scaled by canvas.height / maxHeight
\* and vertically centred with offsetY = (canvas.height - scaledHeight)/2 >= 0,
\* so the tallest image has offsetY = 0 and fills the canvas height exactly; the
\* first image starts at x = 0 and image i+1 at x_i + scaledWidth_i + spacing.
C21_HorizontalCentredLeftToRight ==
  cfg.layout = "horizontal" =>
    LET s == Num(canvas.height, MaxHeightOf(imageFiles))
    IN  \A i \in DOMAIN placements :
          LET p == placements[i]
          IN  /\ p.scaledWidth = RMul(R(imageFiles[i].width), s)
              /\ p.scaledHeight = RMul(R(imageFiles[i].height), s)
              /\ p.y = RDiv(RSub(R(canvas.height), p.scaledHeight), R(2))
              /\ RLe(R(0), p.y)
              /\ imageFiles[i].height = MaxHeightOf(imageFiles) =>
                   /\ p.y = R(0)
                   /\ p.scaledHeight = R(canvas.height)
              /\ i = 1 => p.x = R(0)
              /\ i > 1 => p.x = RAdd(RAdd(placements[i - 1].x,
                                          placements[i - 1].scaledWidth),
                                     R(cfg.spacing))

C21_Witness ==
  /\ AllDrawn
  /\ cfg.layout = "horizontal"
  /\ Len(imageFiles) >= 3
  /\ RLt(R(0), placements[3].x)
  /\ \E i \in DOMAIN placements : RLt(R(0), placements[i].y)
  /\ \E i \in DOMAIN placements : placements[i].y = R(0) /\ canvas.height > 0

\* C22: the decodes of all n images run concurrently, and canvas creation,
\* background fill and drawing start only after every one of the n decodes has
\* resolved, under every order of completion; nothing is drawn while a decode
\* is pending.
C22_CompositingAfterAllDecodes ==
  /\ pc = "loading" => \A i \in DOMAIN decode : decode[i] # "none"
  /\ (canvas # NoCanvas \/ filled \/ placements # <<>>) =>
       \A i \in DOMAIN decode : decode[i] = "loaded"

C22_Witness ==
  /\ Len(imageFiles) >= 3
  /\ placements # <<>>
  /\ \A i \in DOMAIN decode : decode[i] = "loaded"

\* C23: in every successful merge the background is filled before any image is
\* drawn, the images are then drawn in input order whatever the order their
\* decodes completed in, and the canvas is encoded only after the last image
\* is drawn.
C23_FillThenDrawInOrderThenEncode ==
  [][ /\ (filled' /\ ~filled) => placements = <<>>
      /\ placements' # placements =>
           /\ filled
           /\ ~result.returned
           /\ Len(placements') = Len(placements) + 1
           /\ SubSeq(placements', 1, Len(placements)) = placements
           /\ LET k == Len(placements')
              IN  /\ images[k] = imageFiles[k]
                  /\ placements'[k].scaledWidth
                       = RMul(R(imageFiles[k].width), draw.scale)
                  /\ placements'[k].scaledHeight
                       = RMul(R(imageFiles[k].height), draw.scale)
      /\ (result'.success /\ ~result.success) =>
           /\ filled
           /\ Len(placements) = Len(imageFiles)
           /\ placements' = placements ]_vars

C23_Witness ==
  /\ pc = "done"
  /\ result.success
  /\ filled
  /\ Len(placements) >= 3
  /\ imageFiles[1] # imageFiles[2]
  /\ RLt(R(0), placements[1].scaledWidth)

\* C24 (as claimed): for every layout and n >= 2 images with spacing >= 0 every
\* drawn rectangle [x, x + scaledWidth] x [y, y + scaledHeight] lies inside
\* the canvas rectangle [0, canvas.width] x [0, canvas.height].
C24_PlacementsInsideCanvas ==
  \A i \in DOMAIN placements :
    LET p == placements[i]
    IN  /\ RLe(R(0), p.x)
        /\ RLe(R(0), p.y)
        /\ RLe(RAdd(p.x, p.scaledWidth), R(canvas.width))
        /\ RLe(RAdd(p.y, p.scaledHeight), R(canvas.height))

(* ========================= properties of pdfUtils ====================== *)

\* the number of pages of the files before the k-th
RECURSIVE PagesBefore(_, _)
PagesBefore(list, k) ==
  IF k <= 1 THEN 0 ELSE list[k - 1].pageCount + PagesBefore(list, k - 1)

\* C17: mergePDFs with k >= 2 loadable files produces one document whose pages
\* are the files' pages, file after file in input order, each file's pages in
\* their original order (page count = sum of the inputs' page counts); if any
\* file fails to load the result is a failure with no document.
C17_MergePDFsConcatenates ==
  (pdfFn = "mergePDFs" /\ pdfPc = "done" /\ Len(pdfInput) >= 2) =>
    /\ (\A k \in DOMAIN pdfInput : pdfInput[k].loadable) =>
         /\ pdfResult.success
         /\ pdfResult.data
         /\ Len(pdfResult.pages) = PagesBefore(pdfInput, Len(pdfInput) + 1)
         /\ \A k \in DOMAIN pdfInput :
              \A j \in 1..pdfInput[k].pageCount :
                pdfResult.pages[PagesBefore(pdfInput, k) + j]
                  = [file |-> k, page |-> j]
    /\ (\E k \in DOMAIN pdfInput : ~pdfInput[k].loadable) =>
         /\ pdfResult.returned
         /\ ~pdfResult.success
         /\ pdfResult.error # ""
         /\ ~pdfResult.data
         /\ pdfResult.pages = <<>>

C17_Witness ==
  /\ pdfFn = "mergePDFs"
  /\ pdfPc = "done"
  /\ Len(pdfInput) = 3
  /\ pdfInput[1].pageCount = 2
  /\ pdfInput[2].pageCount = 1
  /\ pdfResult.success
  /\ Len(pdfResult.pages) >= 4
  /\ pdfResult.pages[3] = [file |-> 2, page |-> 1]

\* C18: imagesToPDF with k >= 1 images produces a single PDF with exactly k
\* pages, page j holding image j in input order and sized to that image's
\* width and height; with 0 images, or if any image fails to embed, it returns
\* a failure and no PDF.
C18_ImagesToPDFOnePagePerImage ==
  (pdfFn = "imagesToPDF" /\ pdfPc = "done") =>
    /\ (Len(pdfInput) >= 1 /\ \A k \in DOMAIN pdfInput : pdfInput[k].embeddable) =>
         /\ pdfResult.success
         /\ pdfResult.data
         /\ Len(pdfResult.pages) = Len(pdfInput)
         /\ \A j \in DOMAIN pdfInput :
              /\ pdfResult.pages[j].image = j
              /\ pdfResult.pages[j].width = pdfInput[j].dim.width
              /\ pdfResult.pages[j].height = pdfInput[j].dim.height
    /\ (Len(pdfInput) = 0 \/ \E k \in DOMAIN pdfInput : ~pdfInput[k].embeddable) =>
         /\ pdfResult.returned
         /\ ~pdfResult.success
         /\ pdfResult.error # ""
         /\ ~pdfResult.data
         /\ pdfResult.pages = <<>>

C18_Witness ==
  /\ pdfFn = "imagesToPDF"
  /\ pdfPc = "done"
  /\ Len(pdfInput) = 3
  /\ pdfInput[1].dim # pdfInput[2].dim
  /\ pdfInput[3].type = "image/webp"
  /\ pdfResult.success
  /\ Len(pdfResult.pages) = 3

(* ========================= properties of the App ========================= *)

ImageUtilities == {"imagesToPDF", "compressImage", "mergeImages", "cropImage"}
PdfUtilities == {"mergePDFs", "compressPDF"}

\* C15: every processing operation started from the UI passes to its utility
\* only files of the accepted type: imagesToPDF, compressImage, mergeImages and
\* cropImage receive only image/ files, mergePDFs and compressPDF receive only
\* application/pdf files.
C15_UtilitiesGetAcceptedTypes ==
  /\ called.util \in ImageUtilities
       => \A k \in DOMAIN called.args : isImage(called.args[k])
  /\ called.util \in PdfUtilities
       => \A k \in DOMAIN called.args : isPdf(called.args[k])

\* C16: a selected file larger than the stated limit of 100 MB is never passed
\* to a processing utility.
C16_OversizedNeverProcessed ==
  \A k \in DOMAIN called.args : called.args[k].size <= FileSizeLimitMB

\* C25: in every reachable ProcessingState result and error are never both
\* non-null, isProcessing = true implies result = null and error = null, and
\* result # null implies isProcessing = false and progress = 100.
C25_ProcessingStateConsistent ==
  /\ ~(processing.result # NoAppResult /\ processing.error # "null")
  /\ processing.isProcessing =>
       processing.result = NoAppResult /\ processing.error = "null"
  /\ processing.result # NoAppResult =>
       ~processing.isProcessing /\ processing.progress = 100

C25_Witness ==
  /\ processing.result # NoAppResult
  /\ inflight # {}
  /\ selecting # <<>>

\* C26 (as claimed): at most one processing operation is in flight at any time.
C26_AtMostOneInFlight == Cardinality(inflight) <= 1

\* operation id awaits its utility
InFlight(id) == \E op \in inflight : op.id = id

\* C27 (as claimed): after the user selects, removes or clears files, result
\* and error stay null until an operation started after that action completes:
\* an operation that was in flight when the file list changed shows no outcome.
C27_StaleOutcomeNeverShown ==
  [][ \A op \in inflight :
        (op.stale /\ ~InFlight(op.id)') =>
          /\ processing'.result = NoAppResult
          /\ processing'.error = "null" ]_vars

\* C28: every operation that called its utility is eventually settled, and the
\* step that settles it leaves isProcessing = false and exactly one of result
\* and error set, whether the utility succeeded, returned success = false or
\* rejected.  (InFlight(id) ~> ~InFlight(id) is written in its equivalent
\* form []<>~InFlight(id).)
C28_EveryOperationSettles ==
  /\ \A id \in 1..MaxOps : []<>(~InFlight(id))
  /\ [][ \A id \in 1..MaxOps :
           (InFlight(id) /\ ~InFlight(id)') =>
             /\ ~processing'.isProcessing
             /\ (processing'.result # NoAppResult) # (processing'.error # "null")
       ]_vars

C28_Witness ==
  /\ processing.error = "failed"
  /\ ~processing.isProcessing
  /\ inflight = {}

\* the guard of the operation the next press would start fails: no files; fewer
\* than 2 files of the required type for a merge; not exactly one PDF file for
\* compress-pdf; no selected image or an empty crop area for crop
guardFails ==
  IF showCropDialog
    THEN \/ selectedImageForCrop = NoFile
         \/ cropArea.width = 0
         \/ cropArea.height = 0
  ELSE CASE activeTab = "merge-image" -> Len(imagesOf(files)) < 2
         [] activeTab = "merge-pdf" -> Len(pdfsOf(files)) < 2
         [] activeTab = "compress-pdf" -> Len(pdfsOf(files)) # 1
         [] OTHER -> files = <<>>

\* the step is neither a change of the file list, nor of the tab or the crop
\* dialog, nor the completion of an operation
handlerStep ==
  /\ files' = files
  /\ selecting' = selecting
  /\ activeTab' = activeTab
  /\ showCropDialog' = showCropDialog
  /\ cropArea' = cropArea
  /\ selectedImageForCrop' = selectedImageForCrop
  /\ \A id \in 1..MaxOps : InFlight(id) => InFlight(id)'

\* C29: an operation whose guard fails leaves ProcessingState and the file list
\* unchanged and calls no utility; mergeImages and mergePDFs are never called
\* with fewer than 2 files.
C29_FailedGuardChangesNothing ==
  [][ /\ (guardFails /\ handlerStep) =>
           /\ processing' = processing
           /\ inflight' = inflight
           /\ called' = NoCall
      /\ called'.util \in {"mergeImages", "mergePDFs"} =>
           Len(called'.args) >= 2 ]_vars

C29_Witness ==
  /\ activeTab = "merge-image"
  /\ Len(files) = 2
  /\ Len(imagesOf(files)) = 1
  /\ ~processing.isProcessing
  /\ ~showCropDialog

\* files without the file of the given id
without(fs, id) == SelectSeq(fs, LAMBDA f : f.id # id)

\* C30: no selected file is lost under overlapping selections: a selection that
\* finishes appends its files, in selection order, after the files present,
\* thumbnails made or not; another selection pending is kept; only removeFile
\* and clearFiles take files out, and removeFile only the one removed.
C30_NoSelectedFileLost ==
  [][ /\ Len(selecting') < Len(selecting) =>
           \E k \in DOMAIN selecting :
             /\ selecting' = RemoveAt(selecting, k)
             /\ files' = files \o selecting[k]
      /\ Len(selecting') > Len(selecting) =>
           /\ files' = files
           /\ SubSeq(selecting', 1, Len(selecting)) = selecting
      /\ Len(selecting') = Len(selecting) =>
           /\ selecting' = selecting
           /\ \/ Len(files') >= Len(files)
                   /\ SubSeq(files', 1, Len(files)) = files
              \/ files' = <<>>
              \/ \E k \in DOMAIN files : files' = without(files, files[k].id)
    ]_vars

C30_Witness ==
  /\ Len(files) = 1
  /\ Len(selecting) = 1
  /\ files[1].id = 2
  /\ isImage(files[1])
  /\ selecting[1][1].id = 1

====
